---------------------------- MODULE Spec2Model ----------------------------
(***************************************************************************)
(* A model of the moderation service's toxicity detector                   *)
(* (src/src/services/toxicity_detector.py).                                *)
(*                                                                         *)
(* Texts are TLA+ strings, read character by character with SubSeq.        *)
(* Real numbers (scores, thresholds, confidences) are fixed-point          *)
(* integers in millionths: 1.0 is Scale, 0.5 is 500000.                    *)
(***************************************************************************)
EXTENDS Integers, Sequences, FiniteSets, TLC

(***************************************************************************)
(* Characters and strings                                                  *)
(***************************************************************************)
LowerLetters ==
    {"a","b","c","d","e","f","g","h","i","j","k","l","m",
     "n","o","p","q","r","s","t","u","v","w","x","y","z"}

UpperLetters ==
    {"A","B","C","D","E","F","G","H","I","J","K","L","M",
     "N","O","P","Q","R","S","T","U","V","W","X","Y","Z"}

Digits == {"0","1","2","3","4","5","6","7","8","9"}

\* the characters Python's \s matches, among those the inputs use
Whitespace == {" ", "\t", "\n", "\f"}

\* str.lower() on one character
LowerOf ==
    [c \in UpperLetters |->
        CASE c = "A" -> "a" [] c = "B" -> "b" [] c = "C" -> "c" [] c = "D" -> "d"
          [] c = "E" -> "e" [] c = "F" -> "f" [] c = "G" -> "g" [] c = "H" -> "h"
          [] c = "I" -> "i" [] c = "J" -> "j" [] c = "K" -> "k" [] c = "L" -> "l"
          [] c = "M" -> "m" [] c = "N" -> "n" [] c = "O" -> "o" [] c = "P" -> "p"
          [] c = "Q" -> "q" [] c = "R" -> "r" [] c = "S" -> "s" [] c = "T" -> "t"
          [] c = "U" -> "u" [] c = "V" -> "v" [] c = "W" -> "w" [] c = "X" -> "x"
          [] c = "Y" -> "y" [] c = "Z" -> "z"]

\* A TLA+ string holds ASCII characters only.  In the texts of this module
\* the character | stands for U+0131, the dotless i: a lower-case letter
\* outside a-z that \w matches, that str.lower() leaves alone and whose
\* str.upper() is the ASCII letter I.
DotlessI == "|"

\* the letters outside A-Z and a-z, among those the inputs use
OtherLetters == {DotlessI}

\* str.upper() on one character
UpperOf ==
    [c \in LowerLetters \cup OtherLetters |->
        CASE c = "a" -> "A" [] c = "b" -> "B" [] c = "c" -> "C" [] c = "d" -> "D"
          [] c = "e" -> "E" [] c = "f" -> "F" [] c = "g" -> "G" [] c = "h" -> "H"
          [] c = "i" -> "I" [] c = "j" -> "J" [] c = "k" -> "K" [] c = "l" -> "L"
          [] c = "m" -> "M" [] c = "n" -> "N" [] c = "o" -> "O" [] c = "p" -> "P"
          [] c = "q" -> "Q" [] c = "r" -> "R" [] c = "s" -> "S" [] c = "t" -> "T"
          [] c = "u" -> "U" [] c = "v" -> "V" [] c = "w" -> "W" [] c = "x" -> "X"
          [] c = "y" -> "Y" [] c = "z" -> "Z" [] c = DotlessI -> "I"]

UpperChar(c) == IF c \in DOMAIN UpperOf THEN UpperOf[c] ELSE c

\* the i-th character of s (1-based), as a one-character string
CharAt(s, i) == SubSeq(s, i, i)

\* s[b:e] of Python: the characters at 0-based offsets b .. e-1
Slice(s, b, e) == SubSeq(s, b + 1, e)

LowerChar(c) == IF c \in UpperLetters THEN LowerOf[c] ELSE c

\* str.lower() on the characters lo..hi of s, by halves
RECURSIVE LowerRange(_, _, _)
LowerRange(s, lo, hi) ==
    IF lo > hi THEN ""
    ELSE IF lo = hi THEN LowerChar(CharAt(s, lo))
    ELSE LowerRange(s, lo, (lo + hi) \div 2) \o LowerRange(s, (lo + hi) \div 2 + 1, hi)

\* str.lower()
Lower(s) == LowerRange(s, 1, Len(s))

\* re.sub(r'\s+', ' ', s): every maximal run of whitespace becomes one space
\* what the character at i becomes: the first whitespace of a run a space,
\* the rest of the run nothing
CollapseAt(s, i) ==
    IF CharAt(s, i) \in Whitespace
    THEN IF i > 1 /\ CharAt(s, i - 1) \in Whitespace THEN "" ELSE " "
    ELSE CharAt(s, i)

RECURSIVE CollapseRange(_, _, _)
CollapseRange(s, lo, hi) ==
    IF lo > hi THEN ""
    ELSE IF lo = hi THEN CollapseAt(s, lo)
    ELSE CollapseRange(s, lo, (lo + hi) \div 2)
         \o CollapseRange(s, (lo + hi) \div 2 + 1, hi)

CollapseWhitespace(s) == CollapseRange(s, 1, Len(s))

\* str.strip(): drop leading and trailing whitespace
RECURSIVE LStrip(_)
LStrip(s) ==
    IF Len(s) > 0 /\ CharAt(s, 1) \in Whitespace
    THEN LStrip(SubSeq(s, 2, Len(s))) ELSE s

RECURSIVE RStrip(_)
RStrip(s) ==
    IF Len(s) > 0 /\ CharAt(s, Len(s)) \in Whitespace
    THEN RStrip(SubSeq(s, 1, Len(s) - 1)) ELSE s

Strip(s) == RStrip(LStrip(s))

\* Python's  w in s  for strings: w occurs in s as a substring
Contains(s, w) ==
    \E b \in 0..(Len(s) - Len(w)) : Slice(s, b, b + Len(w)) = w

(***************************************************************************)
(* Fixed-point arithmetic                                                  *)
(***************************************************************************)
Scale == 1000 * 1000

Min(a, b) == IF a <= b THEN a ELSE b
Max(a, b) == IF a >= b THEN a ELSE b
Abs(a) == IF a >= 0 THEN a ELSE -a

\* round(x, 3): to the nearest thousandth, a tie going to the even one
Round3(x) ==
    LET q == x \div 1000
        r == x % 1000
    IN  IF r > 500 \/ (r = 500 /\ q % 2 = 1) THEN (q + 1) * 1000 ELSE q * 1000

\* round(x, 4)
Round4(x) ==
    LET q == x \div 100
        r == x % 100
    IN  IF r > 50 \/ (r = 50 /\ q % 2 = 1) THEN (q + 1) * 100 ELSE q * 100

(***************************************************************************)
(* Text normalisation for the rule-based path                              *)
(***************************************************************************)
\* the cleaning with the five substitutions left out
Deobfuscate_skipped(c) == c

\* the five re.sub calls that undo common obfuscation, on one character
Deobfuscate(c) ==
    CASE c \in {"4", "@"} -> "a"
      [] c = "3"          -> "e"
      [] c \in {"1", "!"} -> "i"
      [] c = "0"          -> "o"
      [] c \in {"5", "$"} -> "s"
      [] OTHER            -> c

\* re.sub(r'[^a-z0-9\s]', '', clean) on one character
KeepAlnumSpace(c) ==
    IF c \in LowerLetters \cup Digits \cup Whitespace THEN c ELSE ""

\* the substitutions and the removal applied to the characters lo..hi
RECURSIVE PlainRange(_, _, _)
PlainRange(s, lo, hi) ==
    IF lo > hi THEN ""
    ELSE IF lo = hi THEN KeepAlnumSpace(Deobfuscate(CharAt(s, lo)))
    ELSE PlainRange(s, lo, (lo + hi) \div 2) \o PlainRange(s, (lo + hi) \div 2 + 1, hi)

clean_content(content) ==
    LET lowered  == Lower(content)
        squeezed == Strip(CollapseWhitespace(lowered))
    IN  PlainRange(squeezed, 1, Len(squeezed))


(***************************************************************************)
(* Regular-expression matching, for the shapes the pattern catalog uses:   *)
(*   \b(w1|w2|...)\b            one group of alternatives                  *)
(*   \b(a1|a2|...).*(b1|...)\b  two groups joined by a greedy .*           *)
(* A position is a 0-based offset 0..Len(s) between characters.            *)
(***************************************************************************)
\* \w
IsWordChar(c) == c \in LowerLetters \cup UpperLetters \cup OtherLetters \cup Digits \cup {"_"}

\* \b at offset p
WordBoundary(s, p) ==
    LET before == p >= 1 /\ IsWordChar(CharAt(s, p))
        after  == p < Len(s) /\ IsWordChar(CharAt(s, p + 1))
    IN  before # after

\* the literal w matches s at offset p, ignoring case (re.IGNORECASE)
StartsAt(s, p, w) ==
    /\ p + Len(w) <= Len(s)
    /\ Lower(Slice(s, p, p + Len(w))) = w

\* alternative k of a group matches at offset j and a \b follows it
Fits(s, group, j, k) ==
    StartsAt(s, j, group[k]) /\ WordBoundary(s, j + Len(group[k]))

\* offsets at which the second group can match once the first group ended
\* at offset a: the .* in between spans no newline
SecondGroupStarts(s, second, a) ==
    { j \in a..Len(s) :
        /\ \A q \in (a + 1)..j : CharAt(s, q) # "\n"
        /\ \E k \in 1..Len(second) : Fits(s, second, j, k) }

\* the end of the second group matched at offset j: its first fitting
\* alternative, in order, is taken
SecondGroupEnd(s, second, j) ==
    j + Len(second[CHOOSE k \in 1..Len(second) :
                      /\ Fits(s, second, j, k)
                      /\ \A y \in 1..(k - 1) : ~Fits(s, second, j, y)])

\* the greedy .* takes the last offset at which the second group can match
GreedyEnd(s, second, starts) ==
    IF starts = {} THEN -1
    ELSE SecondGroupEnd(s, second, CHOOSE j \in starts : \A y \in starts : y <= j)

\* where the alternative w of the first group, matched at p, lets the whole
\* pattern end, or -1 when it cannot
EndAfter(s, pat, p, w) ==
    IF ~StartsAt(s, p, w) THEN -1
    ELSE IF Len(pat.second) = 0
         THEN IF WordBoundary(s, p + Len(w)) THEN p + Len(w) ELSE -1
         ELSE GreedyEnd(s, pat.second, SecondGroupStarts(s, pat.second, p + Len(w)))

\* the first entry of ends that is not -1, or -1
FirstEnd(ends) ==
    IF \A i \in 1..Len(ends) : ends[i] < 0 THEN -1
    ELSE ends[CHOOSE i \in 1..Len(ends) :
                 ends[i] >= 0 /\ \A y \in 1..(i - 1) : ends[y] < 0]

\* the end offset of the match of pat that starts at offset p, or -1: the
\* first alternative of the first group (in order) that can be completed wins
MatchEnd(s, pat, p) ==
    IF ~WordBoundary(s, p) THEN -1
    ELSE FirstEnd([i \in 1..Len(pat.first) |-> EndAfter(s, pat, p, pat.first[i])])

\* for every offset, the end of the match of pat that starts there, or -1
MatchEnds(s, pat) == [q \in 0..Len(s) |-> MatchEnd(s, pat, q)]

\* pattern.findall(content): the non-overlapping matches, left to right.
\* The scan takes the match at the first offset from p on that has one and
\* goes on from that match's end.
RECURSIVE FindNext(_, _, _)
FindAt(s, ends, q) == << Slice(s, q, ends[q]) >> \o FindNext(s, ends, ends[q])

FindAmong(s, ends, starts) ==
    IF starts = {} THEN << >>
    ELSE FindAt(s, ends, CHOOSE q \in starts : \A y \in starts : q <= y)

FindNext(s, ends, p) == FindAmong(s, ends, { q \in p..Len(s) : ends[q] > q })

FindAll(s, pat, p) == FindNext(s, MatchEnds(s, pat), p)

(***************************************************************************)
(* The rule-based tables of _initialize_rule_based                         *)
(***************************************************************************)
\* self.toxic_patterns / self.compiled_patterns, list index 0 first
toxic_patterns ==
    << [first |-> <<"fuck", "shit", "damn", "bitch", "asshole", "bastard">>, second |-> << >>],
       [first |-> <<"nigger", "faggot", "retard", "cunt">>,                  second |-> << >>],
       [first |-> <<"kill yourself", "kys", "die">>,                         second |-> << >>],
       [first |-> <<"hate", "despise">>,            second |-> <<"you", "him", "her", "them">>],
       [first |-> <<"stupid", "idiot", "moron", "dumb">>, second |-> <<"person", "people", "you">>],
       [first |-> <<"spam", "troll", "harassment">>,                         second |-> << >>] >>

\* self.toxicity_categories of the rule-based detector: pattern indices
rule_categories ==
    [profanity |-> {0, 1}, hate_speech |-> {2, 3},
     harassment |-> {4, 5}, toxic_behavior |-> {6}]

\* self.severity_weights
severity_weights ==
    [profanity |-> 300000, hate_speech |-> 900000,
     harassment |-> 700000, toxic_behavior |-> 500000]

(***************************************************************************)
(* Ordering of strings, for sorted()                                       *)
(***************************************************************************)
\* the characters of category names in code-point order
CodePointOrder == "_abcdefghijklmnopqrstuvwxyz"

Ord(c) == CHOOSE i \in 1..Len(CodePointOrder) : CharAt(CodePointOrder, i) = c

\* a < b for Python strings
StrLess(a, b) ==
    \E i \in 1..(Min(Len(a), Len(b)) + 1) :
        /\ \A k \in 1..(i - 1) : CharAt(a, k) = CharAt(b, k)
        /\ \/ i = Len(a) + 1 /\ i <= Len(b)
           \/ i <= Len(a) /\ i <= Len(b) /\ Ord(CharAt(a, i)) < Ord(CharAt(b, i))

\* sorted(list(S)) for a set of strings
RECURSIVE Sorted(_)
Sorted(S) ==
    IF S = {} THEN << >>
    ELSE LET m == CHOOSE x \in S : \A y \in S : x = y \/ StrLess(x, y)
         IN  << m >> \o Sorted(S \ {m})

RECURSIVE SumOver(_, _)
SumOver(f, S) ==
    IF S = {} THEN 0
    ELSE LET x == CHOOSE y \in S : TRUE IN f[x] + SumOver(f, S \ {x})

(***************************************************************************)
(* The rule-based scorer                                                   *)
(***************************************************************************)
\* _find_toxic_patterns: the list of (match, pattern index), index 0 first
Tagged(found, i) ==
    [k \in 1..Len(found) |-> [match |-> found[k], pattern_index |-> i]]

RECURSIVE FindFrom(_, _, _)
FindFrom(compiled_patterns, content, i) ==
    IF i >= Len(compiled_patterns) THEN << >>
    ELSE Tagged(FindAll(content, compiled_patterns[i + 1], 0), i)
         \o FindFrom(compiled_patterns, content, i + 1)

find_toxic_patterns(compiled_patterns, content) ==
    FindFrom(compiled_patterns, content, 0)

\* _calculate_toxicity_score with a neutral score for no match
calculate_toxicity_score_prior(categories, weights, matches) ==
    IF Len(matches) = 0 THEN [score |-> 500000, categories |-> << >>]
    ELSE LET hits(c) == { k \in 1..Len(matches) :
                            matches[k].pattern_index \in categories[c] }
             identified_categories == { c \in DOMAIN categories : hits(c) # {} }
             category_scores ==
                 [c \in identified_categories |-> weights[c] * Cardinality(hits(c))]
         IN  [score |-> Min(Scale, SumOver(category_scores, identified_categories)
                                     \div Cardinality(identified_categories)),
              categories |-> Sorted(identified_categories)]

\* _calculate_toxicity_score with the sum of the category scores for their mean
calculate_toxicity_score_sum(categories, weights, matches) ==
    IF Len(matches) = 0 THEN [score |-> 0, categories |-> << >>]
    ELSE LET hits(c) == { k \in 1..Len(matches) :
                            matches[k].pattern_index \in categories[c] }
             identified_categories == { c \in DOMAIN categories : hits(c) # {} }
             category_scores ==
                 [c \in identified_categories |-> weights[c] * Cardinality(hits(c))]
         IN  [score |-> Min(Scale, SumOver(category_scores, identified_categories)),
              categories |-> Sorted(identified_categories)]

\* _calculate_toxicity_score: (final_score, sorted categories)
calculate_toxicity_score(categories, weights, matches) ==
    IF Len(matches) = 0 THEN [score |-> 0, categories |-> << >>]
    ELSE LET hits(c) == { k \in 1..Len(matches) :
                            matches[k].pattern_index \in categories[c] }
             identified_categories == { c \in DOMAIN categories : hits(c) # {} }
             category_scores ==
                 [c \in identified_categories |-> weights[c] * Cardinality(hits(c))]
         IN  IF identified_categories # {}
             THEN [score |-> Min(Scale, SumOver(category_scores, identified_categories)
                                         \div Cardinality(identified_categories)),
                   categories |-> Sorted(identified_categories)]
             ELSE [score |-> 0, categories |-> << >>]


(***************************************************************************)
(* The classifier path: logistic function, normalisation, categories       *)
(***************************************************************************)
\* scipy.special.expit at whole logits, in millionths
ExpitTable ==
    (-14) :> 1 @@ (-13) :> 2 @@ (-12) :> 6 @@ (-11) :> 17 @@ (-10) :> 45 @@
    (-9) :> 123 @@ (-8) :> 335 @@ (-7) :> 911 @@ (-6) :> 2473 @@ (-5) :> 6693 @@
    (-4) :> 17986 @@ (-3) :> 47426 @@ (-2) :> 119203 @@ (-1) :> 268941 @@
    0 :> 500000 @@ 1 :> 731059 @@ 2 :> 880797 @@ 3 :> 952574 @@ 4 :> 982014 @@
    5 :> 993307 @@ 6 :> 997527 @@ 7 :> 999089 @@ 8 :> 999665 @@ 9 :> 999877 @@
    10 :> 999955 @@ 11 :> 999983 @@ 12 :> 999994 @@ 13 :> 999998 @@ 14 :> 999999

\* expit(logit): beyond the table the value is 0.0 or 1.0 to the millionth
\* (and exactly so in double precision from about -746 and +37 on)
Expit(logit) ==
    IF logit \in DOMAIN ExpitTable THEN ExpitTable[logit]
    ELSE IF logit > 0 THEN Scale ELSE 0

\* re.sub(r'[^\w\s\.\!\?\,\;\:\-\'\"]', ' ', clean) on one character
KeepForMl(c) ==
    IF \/ IsWordChar(c)
       \/ c \in Whitespace
       \/ c \in {".", "!", "?", ",", ";", ":", "-", "'", "\""}
    THEN c ELSE " "

\* the replacement applied to the characters lo..hi
RECURSIVE KeepForMlRange(_, _, _)
KeepForMlRange(s, lo, hi) ==
    IF lo > hi THEN ""
    ELSE IF lo = hi THEN KeepForMl(CharAt(s, lo))
    ELSE KeepForMlRange(s, lo, (lo + hi) \div 2)
         \o KeepForMlRange(s, (lo + hi) \div 2 + 1, hi)

\* _clean_content_for_ml
clean_content_for_ml(content) ==
    LET squeezed == Strip(CollapseWhitespace(content))
        clean    == KeepForMlRange(squeezed, 1, Len(squeezed))
    IN  IF Len(clean) > 512 THEN Slice(clean, 0, 512) ELSE clean

\* the keyword lists of _analyze_toxicity_categories_ml
profanity_keywords  == <<"fuck", "shit", "damn", "bitch", "asshole">>
hate_keywords       == <<"hate", "kill", "die", "murder">>
harassment_keywords == <<"stupid", "idiot", "moron", "loser", "pathetic">>
threat_keywords     == <<"kill you", "hurt you", "destroy you", "eliminate">>

\* any(word in content_lower for word in keywords)
AnyIn(content_lower, keywords) ==
    \E k \in 1..Len(keywords) : Contains(content_lower, keywords[k])

\* the keyword categories _analyze_toxicity_categories_ml finds in content,
\* in the order of the appends (lines 282-299)
keyword_categories(content) ==
    LET content_lower == Lower(content)
    IN  (IF AnyIn(content_lower, profanity_keywords) THEN <<"profanity">> ELSE << >>)
        \o (IF AnyIn(content_lower, hate_keywords) THEN <<"hate_speech">> ELSE << >>)
        \o (IF AnyIn(content_lower, harassment_keywords) THEN <<"harassment">> ELSE << >>)
        \o (IF AnyIn(content_lower, threat_keywords) THEN <<"threat">> ELSE << >>)

\* _analyze_toxicity_categories_ml without the test of line 280
analyze_toxicity_categories_ml_no_floor(found, toxicity_score) ==
    IF Len(found) = 0 /\ toxicity_score > 600000
    THEN <<"general_toxicity">>
    ELSE found

\* _analyze_toxicity_categories_ml, given the keyword categories found
analyze_toxicity_categories_ml(found, toxicity_score) ==
    IF toxicity_score > 300000
    THEN IF Len(found) = 0 /\ toxicity_score > 600000
         THEN <<"general_toxicity">>
         ELSE found
    ELSE << >>

\* the second estimate, 1.0 - abs(0.5 - toxicity_score) * 2 (line 207)
extremes_confidence(toxicity_score) == Scale - Abs(500000 - toxicity_score) * 2

\* ml_confidence without the clamps of lines 204 and 212
ml_confidence_unclamped(toxicity_score, toxicity_threshold) ==
    LET threshold_distance == Abs(toxicity_score - toxicity_threshold)
        combined == Max(threshold_distance * 2, Scale - Abs(500000 - toxicity_score) * 2)
    IN  IF toxicity_score <= 100000 \/ toxicity_score >= 900000
        THEN Max(combined, 850000) ELSE combined

\* ml_confidence without the floor for extreme scores (lines 210-211)
ml_confidence_no_floor(toxicity_score, toxicity_threshold) ==
    LET threshold_distance == Abs(toxicity_score - toxicity_threshold)
        base     == Min(Scale, Max(threshold_distance * 2, 0))
        combined == Max(base, Scale - Abs(500000 - toxicity_score) * 2)
    IN  Min(Scale, combined)

\* ml_confidence without the second estimate (line 207)
ml_confidence_base_only(toxicity_score, toxicity_threshold) ==
    LET threshold_distance == Abs(toxicity_score - toxicity_threshold)
        base     == Min(Scale, Max(threshold_distance * 2, 0))
        floored  == IF toxicity_score <= 100000 \/ toxicity_score >= 900000
                    THEN Max(base, 850000) ELSE base
    IN  Min(Scale, floored)

\* the confidence of _check_toxicity_ml, lines 202-212
ml_confidence(toxicity_score, toxicity_threshold) ==
    LET threshold_distance == Abs(toxicity_score - toxicity_threshold)
        base     == Min(Scale, Max(threshold_distance * 2, 0))
        combined == Max(base, extremes_confidence(toxicity_score))
        floored  == IF toxicity_score <= 100000 \/ toxicity_score >= 900000
                    THEN Max(combined, 850000) ELSE combined
    IN  Min(Scale, floored)


(***************************************************************************)
(* The detector object and its construction                                *)
(***************************************************************************)
\* self.toxicity_categories of the ML detector (lines 101-108)
ml_categories ==
    [general_toxicity |-> 500000, severe_toxicity |-> 700000, obscene |-> 600000,
     threat |-> 800000, insult |-> 600000, identity_attack |-> 700000]

\* the keys of the rule-based self.toxicity_categories, in insertion order
rule_category_names == <<"profanity", "hate_speech", "harassment", "toxic_behavior">>

\* an object on which no attribute has been set; attrs is the set of
\* attributes that exist (hasattr), the other fields hold their values
Blank ==
    [constructed |-> FALSE, use_ml_model |-> FALSE, attrs |-> {},
     optimal_threshold |-> 0, max_length |-> 0, model_name_loaded |-> "",
     compiled_patterns |-> << >>, toxicity_categories |-> [unset |-> 0],
     severity_weights |-> [unset |-> 0]]

\* _initialize_rule_based
initialize_rule_based(self) ==
    [self EXCEPT !.compiled_patterns = toxic_patterns,
                 !.toxicity_categories = rule_categories,
                 !.severity_weights = severity_weights,
                 !.attrs = @ \cup {"toxic_patterns", "compiled_patterns",
                                   "toxicity_categories", "severity_weights"}]

\* What _initialize_ml_model finds around it.  model_dir: the local model
\* directory exists; fails_at: the step that raises ("never" for none);
\* config_file: model_config.json exists; config_keys: the keys it sets
\* (flat or nested under model_info); env_threshold: TOXICITY_THRESHOLD.
MlEnvironments ==
    { [model_dir |-> TRUE, fails_at |-> "tokenizer", config_file |-> FALSE,
       config_keys |-> {}, optimal_threshold |-> 0, max_length |-> 0,
       env_threshold |-> 500000],
      [model_dir |-> TRUE, fails_at |-> "config", config_file |-> TRUE,
       config_keys |-> {}, optimal_threshold |-> 0, max_length |-> 0,
       env_threshold |-> 500000],
      [model_dir |-> FALSE, fails_at |-> "pipeline", config_file |-> FALSE,
       config_keys |-> {}, optimal_threshold |-> 0, max_length |-> 0,
       env_threshold |-> 500000],
      [model_dir |-> FALSE, fails_at |-> "never", config_file |-> FALSE,
       config_keys |-> {}, optimal_threshold |-> 0, max_length |-> 0,
       env_threshold |-> 500000],
      [model_dir |-> TRUE, fails_at |-> "never", config_file |-> TRUE,
       config_keys |-> {"optimal_threshold", "max_length"},
       optimal_threshold |-> 731059, max_length |-> 128,
       env_threshold |-> 500000],
      [model_dir |-> TRUE, fails_at |-> "never", config_file |-> TRUE,
       config_keys |-> {"optimal_threshold"},
       optimal_threshold |-> 0, max_length |-> 0,
       env_threshold |-> 500000],
      [model_dir |-> TRUE, fails_at |-> "never", config_file |-> TRUE,
       config_keys |-> {"max_length"},
       optimal_threshold |-> 0, max_length |-> 256,
       env_threshold |-> Scale],
      [model_dir |-> TRUE, fails_at |-> "never", config_file |-> TRUE,
       config_keys |-> {"optimal_threshold", "max_length"},
       optimal_threshold |-> 269000, max_length |-> 1024,
       env_threshold |-> 500000] }

\* the try block of _initialize_ml_model (lines 38-110): the object as the
\* block leaves it, and whether the block raised
ml_try_block(self, env) ==
    LET loaded == [self EXCEPT !.attrs = @ \cup {"tokenizer", "model"}]
        categorised(obj) ==
            [obj EXCEPT !.toxicity_categories = ml_categories,
                        !.attrs = @ \cup {"classifier", "toxicity_categories"}]
    IN  IF env.fails_at = "tokenizer" THEN [self |-> self, raised |-> TRUE]
        ELSE IF env.model_dir
        THEN IF env.fails_at = "config" THEN [self |-> loaded, raised |-> TRUE]
             ELSE LET configured ==
                          [loaded EXCEPT
                             !.optimal_threshold =
                                 IF env.config_file /\ "optimal_threshold" \in env.config_keys
                                 THEN env.optimal_threshold ELSE env.env_threshold,
                             !.max_length =
                                 IF env.config_file /\ "max_length" \in env.config_keys
                                 THEN env.max_length ELSE 512,
                             !.model_name_loaded = "toxicity-model-fast",
                             !.attrs = @ \cup {"optimal_threshold", "max_length",
                                               "model_name_loaded"}]
                  IN  [self |-> categorised(configured), raised |-> FALSE]
        ELSE IF env.fails_at = "pipeline" THEN [self |-> loaded, raised |-> TRUE]
             ELSE [self |-> categorised(loaded), raised |-> FALSE]

\* _initialize_ml_model without its except clause
initialize_ml_model_uncaught(self, env) == ml_try_block(self, env)

\* _initialize_ml_model: the except clause (lines 112-116) turns a failure
\* of the try block into rule-based mode; nothing is raised to the caller
initialize_ml_model(self, env) ==
    LET tried == ml_try_block(self, env)
    IN  IF tried.raised
        THEN [self |-> initialize_rule_based([tried.self EXCEPT !.use_ml_model = FALSE]),
              raised |-> FALSE]
        ELSE tried

\* ToxicityDetector.__init__(use_ml_model), with the module-level flag
\* TRANSFORMERS_AVAILABLE passed as available
detector_init(use_ml_model, available, env) ==
    LET self == [Blank EXCEPT !.use_ml_model = use_ml_model /\ available]
    IN  IF self.use_ml_model
        THEN initialize_ml_model(self, env)
        ELSE [self |-> initialize_rule_based(self), raised |-> FALSE]


(***************************************************************************)
(* The texts submitted, and what the string scans find in each.  The scans *)
(* depend on the text alone, so they are evaluated once per text.          *)
(***************************************************************************)
\* a text longer than the 512 characters _clean_content_for_ml keeps:
\* four matches, then LongRepeats copies of a 17-character filler
LongRepeats == 35

RECURSIVE Repeat(_, _)
Repeat(s, n) == IF n = 0 THEN "" ELSE s \o Repeat(s, n - 1)

\* n copies of the character c, by halves
RECURSIVE Fill(_, _)
Fill(c, n) ==
    IF n <= 0 THEN ""
    ELSE IF n = 1 THEN c
    ELSE Fill(c, n \div 2) \o Fill(c, n - n \div 2)

\* the maximum content length of validate_content and sanitize_input
MaxContentLength == 10000

\* a text of the maximum length and one of twice that length
MaxText == Fill("a", MaxContentLength)
OverlongText == Fill("a", 2 * MaxContentLength)

\* a text with a form feed, one of the characters sanitize_input removes
FormFeedText == "he\fllo world"

LongText == "damn troll die die " \o Repeat("and so on and on ", LongRepeats)

Texts ==
    { "hello world",
      LongText,
      "you are an idiot and a moron",
      "idiot you",
      "sp4m",
      "damn troll",
      "die die",
      "SH!T happens",
      "damn I hate you idiot",
      "I will kill you",
      "kys die kill yourself",
      "D4MN TR0LL",
      "D!3 d1e",
      "d" \o DotlessI \o "e",
      "DIE",
      FormFeedText,
      MaxText,
      OverlongText,
      "   ",
      "" }

\* _find_toxic_patterns(_clean_content(t)) with the catalog of
\* _initialize_rule_based, for each text
PatternScan ==
    [cp \in {toxic_patterns}, t \in Texts |-> find_toxic_patterns(cp, clean_content(t))]

\* the keyword categories of _clean_content_for_ml(t), for each text
KeywordScan == [t \in Texts |-> keyword_categories(clean_content_for_ml(t))]

(***************************************************************************)
(* check_toxicity and the two scorers                                      *)
(*                                                                         *)
(* A call's result is [outcome, raw_calls, rule_calls]: what the caller    *)
(* gets (a returned value or a raised exception) and how often the call    *)
(* ran the model and _check_toxicity_rule_based.  The timestamp field of   *)
(* a result, a clock reading, is left out.                                 *)
(***************************************************************************)
Returned(value) == [kind |-> "return", value |-> value]
Raised(exception) == [kind |-> "raise", exception |-> exception]

\* getattr(self, name, default) for the numeric attributes
getattr_threshold(self) ==
    IF "optimal_threshold" \in self.attrs THEN self.optimal_threshold ELSE 500000

getattr_model_name(self) ==
    IF "model_name_loaded" \in self.attrs THEN self.model_name_loaded
    ELSE "toxicity-model-fast"

\* the decision of _check_toxicity_rule_based (line 244)
rule_is_toxic(toxicity_score) == toxicity_score > 500000

\* the result dictionary with the confidence left uncapped
rule_verdict_uncapped(content, matches, scored) ==
    [is_toxic         |-> rule_is_toxic(scored.score),
     toxicity_score   |-> Round3(scored.score),
     confidence       |-> Round3(300000 + Len(matches) * 200000),
     categories       |-> scored.categories,
     content_length   |-> Len(content),
     detector_version |-> "1.0.0-rule-based",
     model_used       |-> "rule-based-patterns"]

\* the result dictionary with a threshold_used entry added
rule_verdict_with_threshold(content, matches, scored) ==
    [is_toxic         |-> rule_is_toxic(scored.score),
     toxicity_score   |-> Round3(scored.score),
     confidence       |-> Round3(Min(900000, 300000 + Len(matches) * 200000)),
     categories       |-> scored.categories,
     content_length   |-> Len(content),
     detector_version |-> "1.0.0-rule-based",
     model_used       |-> "rule-based-patterns",
     threshold_used   |-> 500000]

\* the result dictionary of _check_toxicity_rule_based (lines 243-258)
rule_verdict(content, matches, scored) ==
    [is_toxic         |-> rule_is_toxic(scored.score),
     toxicity_score   |-> Round3(scored.score),
     confidence       |-> Round3(Min(900000, 300000 + Len(matches) * 200000)),
     categories       |-> scored.categories,
     content_length   |-> Len(content),
     detector_version |-> "1.0.0-rule-based",
     model_used       |-> "rule-based-patterns"]

rule_score(self, content, matches) ==
    rule_verdict(content, matches,
                 calculate_toxicity_score(self.toxicity_categories,
                                          self.severity_weights, matches))

\* _check_toxicity_rule_based (lines 234-258); reading an attribute that
\* was never set raises AttributeError
check_toxicity_rule_based(self, content) ==
    IF "compiled_patterns" \notin self.attrs THEN Raised("AttributeError")
    ELSE Returned(rule_score(self, content, PatternScan[self.compiled_patterns, content]))

\* the decision with the boundary left out
ml_is_toxic_strict(toxicity_score, toxicity_threshold) ==
    toxicity_score > toxicity_threshold

\* the decision of _check_toxicity_ml (line 200)
ml_is_toxic(toxicity_score, toxicity_threshold) ==
    toxicity_score >= toxicity_threshold

\* the try block with content_length taken from the normalised text
ml_verdict_clean_length(self, content, logit) ==
    LET toxicity_score     == Max(0, Min(Scale, Expit(logit)))
        toxicity_threshold == getattr_threshold(self)
    IN  [is_toxic         |-> ml_is_toxic(toxicity_score, toxicity_threshold),
         toxicity_score   |-> Round3(toxicity_score),
         confidence       |-> Round3(ml_confidence(toxicity_score, toxicity_threshold)),
         categories       |-> analyze_toxicity_categories_ml(KeywordScan[content], toxicity_score),
         content_length   |-> Len(clean_content_for_ml(content)),
         detector_version |-> "2.0.5-ml-fast",
         model_used       |-> getattr_model_name(self),
         threshold_used   |-> toxicity_threshold,
         raw_score        |-> Round4(toxicity_score)]

\* the try block of _check_toxicity_ml (lines 175-228) when nothing raises
ml_verdict(self, content, logit) ==
    LET toxicity_score     == Max(0, Min(Scale, Expit(logit)))
        toxicity_threshold == getattr_threshold(self)
        is_toxic           == ml_is_toxic(toxicity_score, toxicity_threshold)
        confidence         == ml_confidence(toxicity_score, toxicity_threshold)
        categories         == analyze_toxicity_categories_ml(KeywordScan[content], toxicity_score)
    IN  [is_toxic         |-> is_toxic,
         toxicity_score   |-> Round3(toxicity_score),
         confidence       |-> Round3(confidence),
         categories       |-> categories,
         content_length   |-> Len(content),
         detector_version |-> "2.0.5-ml-fast",
         model_used       |-> getattr_model_name(self),
         threshold_used   |-> toxicity_threshold,
         raw_score        |-> Round4(toxicity_score)]

\* what the except clause of _check_toxicity_ml (lines 229-232) does
ml_fallback(self, content) == check_toxicity_rule_based(self, content)

\* _check_toxicity_ml running the model a second time before it falls back
check_toxicity_ml_retry(self, content, raw) ==
    IF {"tokenizer", "model"} \subseteq self.attrs /\ ~raw.raises
    THEN [outcome |-> Returned(ml_verdict(self, content, raw.logit)),
          raw_calls |-> 1, rule_calls |-> 0]
    ELSE [outcome |-> ml_fallback(self, content),
          raw_calls |-> IF {"tokenizer", "model"} \subseteq self.attrs THEN 2 ELSE 0,
          rule_calls |-> 1]

\* _check_toxicity_ml; raw is the model's behaviour in this call:
\* [raises |-> TRUE] or [raises |-> FALSE, logit |-> the logit it returns]
check_toxicity_ml(self, content, raw) ==
    IF {"tokenizer", "model"} \subseteq self.attrs /\ ~raw.raises
    THEN [outcome |-> Returned(ml_verdict(self, content, raw.logit)),
          raw_calls |-> 1, rule_calls |-> 0]
    ELSE [outcome |-> ml_fallback(self, content),
          raw_calls |-> IF {"tokenizer", "model"} \subseteq self.attrs THEN 1 ELSE 0,
          rule_calls |-> 1]

\* Python values passed as content: [type, value], value being the string
\* itself or, for other types, the value's repr
Truthy(content) ==
    CASE content.type = "str"      -> Len(content.value) > 0
      [] content.type = "NoneType" -> FALSE
      [] content.type = "int"      -> content.value # "0"
      [] content.type = "list"     -> content.value # "[]"

\* the guard without its emptiness test
rejects_non_str_only(content) == content.type # "str"

\* the guard of check_toxicity (line 164)
rejects(content) == ~Truthy(content) \/ content.type # "str"

\* check_toxicity
check_toxicity(self, content, raw) ==
    IF rejects(content)
    THEN [outcome |-> Raised("ValueError"), raw_calls |-> 0, rule_calls |-> 0]
    ELSE IF self.use_ml_model
         THEN check_toxicity_ml(self, content.value, raw)
         ELSE [outcome |-> check_toxicity_rule_based(self, content.value),
               raw_calls |-> 0, rule_calls |-> 1]

\* a detector that stays in rule-based mode once a call fell back
self_after_check_sticky(self, result) ==
    IF result.raw_calls + result.rule_calls = 2
    THEN initialize_rule_based([self EXCEPT !.use_ml_model = FALSE])
    ELSE self

\* a detector that sets up the rule-based tables after a call fell back
self_after_check_lazy_tables(self, result) ==
    IF result.raw_calls + result.rule_calls = 2
    THEN initialize_rule_based(self)
    ELSE self

\* the detector object after a check_toxicity call: no statement of
\* check_toxicity, _check_toxicity_ml or _check_toxicity_rule_based
\* assigns to self
self_after_check(self, result) == self

\* get_detector_info
get_detector_info(self) ==
    IF self.use_ml_model
    THEN [detector_type |-> "ml_model", version |-> "2.0.5",
          model_name |-> "toxicity-model-fast", framework |-> "transformers",
          description |-> "ML-based toxicity detector using custom-trained DistilBERT regression model"]
    ELSE [detector_type |-> "rule_based", version |-> "1.0.0",
          total_patterns |-> Len(self.compiled_patterns),
          categories |-> rule_category_names,
          description |-> "Rule-based toxicity detector for social media content"]


(***************************************************************************)
(* Inputs                                                                  *)
(***************************************************************************)
\* the model returns whole logits -MaxLogit..MaxLogit, or saturates
MaxLogit == 3

Logits == (-MaxLogit..MaxLogit) \cup {-40, 40}

RawBehaviours ==
    {[raises |-> TRUE, logit |-> 0]} \cup {[raises |-> FALSE, logit |-> l] : l \in Logits}

Str(s) == [type |-> "str", value |-> s]

Contents ==
    {Str(t) : t \in Texts} \cup
    { [type |-> "NoneType", value |-> "None"],
      [type |-> "int", value |-> "0"],
      [type |-> "int", value |-> "42"],
      [type |-> "list", value |-> "[]"] }

(***************************************************************************)
(* State                                                                   *)
(***************************************************************************)
VARIABLES
    TRANSFORMERS_AVAILABLE, \* the module-level flag set by the import (lines 10-16)
    detector,               \* the ToxicityDetector object (app.py line 16)
    construction,           \* the arguments the constructor was called with
    last,                   \* the latest constructor or check_toxicity call
    info,                   \* what the latest get_detector_info call returned
    history,                \* how the latest check_toxicity call relates to the one before
    calls,                  \* the check_toxicity calls in progress, one per request thread
    probe,                  \* a score and a threshold given to the confidence computation
    service                 \* the latest request a route handled, and its response

vars ==
    <<TRANSFORMERS_AVAILABLE, detector, construction, last, info, history, calls, probe,
      service>>

NoContent == [type |-> "NoneType", value |-> "None"]
NoRaw == [raises |-> FALSE, logit |-> 0]
NoValue == [none |-> TRUE]

\* the model's behaviour as far as the call saw it
RawSeen(result, raw) == IF result.raw_calls > 0 THEN raw ELSE NoRaw

\* the call took the except branch of _check_toxicity_ml
TookFallback(call) ==
    call.op = "check_toxicity" /\ call.raw_calls + call.rule_calls = 2

\* the request threads that may be inside check_toxicity at once
NumThreads == 2
Threads == 1..NumThreads

\* a thread outside check_toxicity
NoCall ==
    [pc |-> "idle", content |-> NoContent, raw |-> NoRaw,
     outcome |-> Returned(NoValue), raw_calls |-> 0, rule_calls |-> 0]

NoProbe == [stage |-> "none", toxicity_score |-> 0, toxicity_threshold |-> 0, confidence |-> 0]

\* before the constructor and before any call
NotConstructed ==
    [use_ml_model |-> FALSE, env |-> CHOOSE e \in MlEnvironments : TRUE, done |-> FALSE]

NoLast ==
    [op |-> "none", content |-> NoContent, raw |-> NoRaw,
     outcome |-> Returned(NoValue), raw_calls |-> 0, rule_calls |-> 0]

NoHistory == [fallback_before |-> FALSE, repeated |-> FALSE]

\* before any request
NoRequest ==
    [route |-> "none", request |-> NoValue, status |-> 0, body |-> NoValue,
     analysed |-> <<>>, served |-> 0]

Init ==
    /\ calls = [t \in Threads |-> NoCall]
    /\ probe = NoProbe
    /\ TRANSFORMERS_AVAILABLE \in BOOLEAN
    /\ detector = Blank
    /\ construction = NotConstructed
    /\ last = NoLast
    /\ info = NoValue
    /\ history = NoHistory
    /\ service = NoRequest

\* what a constructor call leaves behind
Built(built) ==
    /\ detector' = IF built.raised THEN detector
                   ELSE [built.self EXCEPT !.constructed = TRUE]
    /\ last' = [op |-> "init", content |-> NoContent, raw |-> NoRaw,
                outcome |-> IF built.raised THEN Raised("Exception")
                            ELSE Returned(NoValue),
                raw_calls |-> 0, rule_calls |-> 0]

\* toxicity_detector = ToxicityDetector(use_ml_model=...)
Construct(use_ml_model, env) ==
    /\ ~construction.done
    /\ Built(detector_init(use_ml_model, TRANSFORMERS_AVAILABLE, env))
    /\ construction' = [use_ml_model |-> use_ml_model, env |-> env, done |-> TRUE]
    /\ UNCHANGED <<TRANSFORMERS_AVAILABLE, info, history, calls, probe, service>>

\* the model's behaviour is an input only of the calls that reach the model
RawInputs(self, content) ==
    IF self.use_ml_model /\ ~rejects(content) THEN RawBehaviours ELSE {NoRaw}

\* what a check_toxicity call leaves behind
Record(content, raw, result) ==
    /\ last' = [op |-> "check_toxicity", content |-> content,
                raw |-> RawSeen(result, raw), outcome |-> result.outcome,
                raw_calls |-> result.raw_calls, rule_calls |-> result.rule_calls]
    /\ detector' = self_after_check(detector, result)
    /\ history' = [fallback_before |-> TookFallback(last),
                   repeated |-> /\ last.op = "check_toxicity"
                                /\ last.content = content
                                /\ last.raw = RawSeen(result, raw)]

\* toxicity_detector.check_toxicity(content), the model behaving as raw
CheckToxicity(content, raw) ==
    /\ detector.constructed
    /\ raw \in RawInputs(detector, content)
    /\ Record(content, raw, check_toxicity(detector, content, raw))
    /\ UNCHANGED <<TRANSFORMERS_AVAILABLE, construction, info, calls, probe, service>>

\* toxicity_detector.get_detector_info()
GetDetectorInfo ==
    /\ detector.constructed
    /\ info' = get_detector_info(detector)
    /\ UNCHANGED <<TRANSFORMERS_AVAILABLE, detector, construction, last, history, calls, probe, service>>

Next ==
    \/ \E use_ml_model \in BOOLEAN, env \in MlEnvironments : Construct(use_ml_model, env)
    \/ \E content \in Contents, raw \in RawBehaviours : CheckToxicity(content, raw)
    \/ GetDetectorInfo

Spec == Init /\ [][Next]_vars

(***************************************************************************)
(* check_toxicity called from several request threads at once, on the one  *)
(* detector the application holds.  A call is a sequence of steps: the     *)
(* guard and the dispatch on self.use_ml_model (lines 164-170), then       *)
(* either the rule-based scorer, or the try block of _check_toxicity_ml    *)
(* and, if it raised, the except clause.  Steps of different calls         *)
(* interleave in any order; each step reads the detector as it is then.    *)
(***************************************************************************)
ConcurrentContents == {Str("hello world"), Str("damn I hate you idiot"), NoContent}

ConcurrentRaws ==
    { [raises |-> TRUE, logit |-> 0],
      [raises |-> FALSE, logit |-> 1],
      [raises |-> FALSE, logit |-> -1] }

\* the detector as the constructor left it
AsConstructed ==
    [detector_init(construction.use_ml_model, TRANSFORMERS_AVAILABLE,
                   construction.env).self EXCEPT !.constructed = TRUE]

InitConcurrent ==
    /\ TRANSFORMERS_AVAILABLE \in BOOLEAN
    /\ construction \in [use_ml_model : BOOLEAN, env : MlEnvironments, done : {TRUE}]
    /\ detector = AsConstructed
    /\ calls = [t \in Threads |-> NoCall]
    /\ last = NoLast
    /\ info = NoValue
    /\ history = NoHistory
    /\ service = NoRequest
    /\ probe = NoProbe

\* a call of thread t ends with call as its record; whatever the call
\* assigned to self is in place when it ends
Finish(t, call) ==
    /\ calls' = [calls EXCEPT ![t] = [call EXCEPT !.pc = "done"]]
    /\ detector' = self_after_check(detector, call)

\* a call of thread t goes on at pc
Proceed(t, call, pc) ==
    /\ calls' = [calls EXCEPT ![t] = [call EXCEPT !.pc = pc]]
    /\ detector' = detector

\* lines 164-170: the guard, then the read of self.use_ml_model
Dispatch(t, content) ==
    /\ calls[t].pc = "idle"
    /\ IF rejects(content)
       THEN Finish(t, [NoCall EXCEPT !.content = content, !.outcome = Raised("ValueError")])
       ELSE Proceed(t, [NoCall EXCEPT !.content = content],
                    IF detector.use_ml_model THEN "ml" ELSE "rule")
    /\ UNCHANGED <<TRANSFORMERS_AVAILABLE, construction, last, info, history, probe, service>>

\* lines 174-228: the try block of _check_toxicity_ml, the model behaving as raw
Inference(t, raw) ==
    /\ calls[t].pc = "ml"
    /\ IF raw.raises \/ ~({"tokenizer", "model"} \subseteq detector.attrs)
       THEN Proceed(t, [calls[t] EXCEPT !.raw = raw, !.raw_calls = 1], "except")
       ELSE Finish(t, [calls[t] EXCEPT
                         !.raw = raw, !.raw_calls = 1,
                         !.outcome = Returned(ml_verdict(detector, calls[t].content.value,
                                                         raw.logit))])
    /\ UNCHANGED <<TRANSFORMERS_AVAILABLE, construction, last, info, history, probe, service>>

\* lines 229-232: the except clause of _check_toxicity_ml
ExceptFallback(t) ==
    /\ calls[t].pc = "except"
    /\ Finish(t, [calls[t] EXCEPT !.rule_calls = 1,
                                  !.outcome = ml_fallback(detector, calls[t].content.value)])
    /\ UNCHANGED <<TRANSFORMERS_AVAILABLE, construction, last, info, history, probe, service>>

\* line 170: _check_toxicity_rule_based called by check_toxicity
RuleBased(t) ==
    /\ calls[t].pc = "rule"
    /\ Finish(t, [calls[t] EXCEPT
                     !.rule_calls = 1,
                     !.outcome = check_toxicity_rule_based(detector, calls[t].content.value)])
    /\ UNCHANGED <<TRANSFORMERS_AVAILABLE, construction, last, info, history, probe, service>>

\* the caller has its result (or exception); the thread is free again
ReturnResult(t) ==
    /\ calls[t].pc = "done"
    /\ calls' = [calls EXCEPT ![t] = NoCall]
    /\ UNCHANGED <<TRANSFORMERS_AVAILABLE, detector, construction, last, info, history, probe, service>>

NextConcurrent ==
    \/ \E t \in Threads, content \in ConcurrentContents : Dispatch(t, content)
    \/ \E t \in Threads, raw \in ConcurrentRaws : Inference(t, raw)
    \/ \E t \in Threads : ExceptFallback(t)
    \/ \E t \in Threads : RuleBased(t)
    \/ \E t \in Threads : ReturnResult(t)

SpecConcurrent == InitConcurrent /\ [][NextConcurrent]_vars

(***************************************************************************)
(* The confidence computation of _check_toxicity_ml (lines 202-212) on its *)
(* own, applied to scores and thresholds over a grid of [0, 1].            *)
(***************************************************************************)
GridSteps == 20

\* the grid, and the values at and next to 0.1, 0.5 and 0.9
UnitGrid ==
    { (k * Scale) \div GridSteps : k \in 0..GridSteps }
    \cup {99999, 100000, 100001, 499999, 500001, 899999, 900000, 900001}

InitConfidence ==
    /\ probe \in [stage : {"input"}, toxicity_score : UnitGrid,
                   toxicity_threshold : UnitGrid, confidence : {0}]
    /\ TRANSFORMERS_AVAILABLE = FALSE
    /\ detector = Blank
    /\ construction = NotConstructed
    /\ calls = [t \in Threads |-> NoCall]
    /\ last = NoLast
    /\ info = NoValue
    /\ history = NoHistory
    /\ service = NoRequest

\* lines 202-212
Confidence ==
    /\ probe.stage = "input"
    /\ probe' = [probe EXCEPT
                    !.stage = "output",
                    !.confidence = ml_confidence(probe.toxicity_score,
                                                 probe.toxicity_threshold)]
    /\ UNCHANGED <<TRANSFORMERS_AVAILABLE, detector, construction, last, info, history, calls, service>>

SpecConfidence == InitConfidence /\ [][Confidence]_vars


(***************************************************************************)
(* Vocabulary of the properties                                            *)
(***************************************************************************)
IsCheck == last.op = "check_toxicity"

\* the latest check_toxicity call returned a result dictionary
ReturnedVerdict == IsCheck /\ last.outcome.kind = "return"

Verdict == last.outcome.value

\* detector_kind = pattern / classifier, read off detector_version
IsPatternVerdict == ReturnedVerdict /\ Verdict.detector_version = "1.0.0-rule-based"
IsClassifierVerdict == ReturnedVerdict /\ Verdict.detector_version = "2.0.5-ml-fast"

\* a string that is not empty after trimming
ValidText(content) == content.type = "str" /\ Strip(content.value) # ""

\* strictly ascending, hence sorted and free of duplicates
IsSortedNoDup(seq) ==
    \A i \in 1..Len(seq), j \in 1..Len(seq) : i < j => StrLess(seq[i], seq[j])

\* the probability the classifier path compares with the threshold
ClampedProbability == Max(0, Min(Scale, Expit(last.raw.logit)))

\* the matches and the unrounded aggregate score of the pattern path
MatchesOf(text) == PatternScan[toxic_patterns, text]
AggregateScore(text) ==
    calculate_toxicity_score(rule_categories, severity_weights, MatchesOf(text)).score

\* the detector is in rule-based mode with the catalog set up
PatternMode ==
    /\ ~detector.use_ml_model
    /\ {"compiled_patterns", "toxicity_categories", "severity_weights"} \subseteq detector.attrs
    /\ detector.compiled_patterns = toxic_patterns
    /\ DOMAIN detector.toxicity_categories = DOMAIN rule_categories
    /\ DOMAIN detector.severity_weights = DOMAIN severity_weights

SameResult(a, b) ==
    /\ a.kind = b.kind
    /\ a.kind = "raise" => a.exception = b.exception
    /\ a.kind = "return" =>
          /\ a.value.toxicity_score = b.value.toxicity_score
          /\ a.value.is_toxic = b.value.is_toxic
          /\ a.value.categories = b.value.categories

(***************************************************************************)
(* Properties                                                              *)
(***************************************************************************)
\* C1: in classifier mode, a check_toxicity call on valid text in which the
\* model raises returns a rule-based (pattern) result and raises nothing.
C1_FallbackReturnsPatternVerdict ==
    (IsCheck /\ detector.use_ml_model /\ ValidText(last.content)
             /\ last.raw_calls = 1 /\ last.raw.raises)
    => IsPatternVerdict

\* C2: every result returned for a threshold in [0,1] carries a
\* toxicity_score and a confidence within [0,1].
C2_ScoresWithinUnitInterval ==
    (ReturnedVerdict /\ getattr_threshold(detector) >= 0
                     /\ getattr_threshold(detector) <= Scale)
    => /\ Verdict.toxicity_score >= 0 /\ Verdict.toxicity_score <= Scale
       /\ Verdict.confidence >= 0 /\ Verdict.confidence <= Scale

\* a classifier result at the far end: threshold 1.0, score 0.0, where the
\* distance to the threshold doubled is 2.0 before it is clamped
C2_Witness ==
    /\ IsClassifierVerdict
    /\ Verdict.threshold_used = Scale
    /\ Verdict.toxicity_score = 0
    /\ Verdict.confidence = Scale

\* C3: the categories of every returned result are sorted ascending and
\* hold no duplicate.
C3_CategoriesSortedNoDuplicates ==
    ReturnedVerdict => IsSortedNoDup(Verdict.categories)

\* C4: on the classifier path is_toxic holds exactly when the clamped
\* probability is >= the threshold; on the pattern path exactly when the
\* aggregate score is > 0.5.
C4_DecisionRule ==
    /\ IsClassifierVerdict =>
          (Verdict.is_toxic <=> ClampedProbability >= Verdict.threshold_used)
    /\ IsPatternVerdict =>
          (Verdict.is_toxic <=> AggregateScore(last.content.value) > 500000)

\* a probability exactly at a configured threshold, reported toxic
C4_Witness ==
    /\ IsClassifierVerdict
    /\ last.raw.logit = 1
    /\ ClampedProbability = Verdict.threshold_used
    /\ Verdict.is_toxic

\* C5: check_toxicity with the empty string, None or a value that is no
\* string raises ValueError, runs neither the model nor the pattern scorer
\* and leaves the detector as it was.
C5_InvalidInputRejected ==
    /\ [](IsCheck /\ (last.content.type # "str" \/ last.content.value = "")
          => /\ last.outcome = Raised("ValueError")
             /\ last.raw_calls = 0
             /\ last.rule_calls = 0)
    /\ [][(last'.op = "check_toxicity" /\ last'.outcome.kind = "raise")
          => detector' = detector]_vars

\* a truthy value that is no string, rejected by a detector in ML mode
C5_Witness ==
    /\ IsCheck
    /\ detector.use_ml_model
    /\ last.content = [type |-> "int", value |-> "42"]
    /\ last.outcome = Raised("ValueError")

\* C6: check_toxicity with a string of whitespace only raises ValueError
\* and runs neither scorer.
C6_WhitespaceOnlyRejected ==
    (IsCheck /\ last.content.type = "str" /\ last.content.value # ""
             /\ Strip(last.content.value) = "")
    => /\ last.outcome = Raised("ValueError")
       /\ last.raw_calls = 0
       /\ last.rule_calls = 0

\* C7: once constructed, no call changes the detector object (mode,
\* threshold, maximum length, tables); the accepted call that follows a
\* call that fell back still runs the model, and returns a classifier
\* result when the model returns normally.
C7_ConfigurationFrozen ==
    /\ []((history.fallback_before /\ IsCheck
              /\ last.content.type = "str" /\ last.content.value # "")
          => /\ last.raw_calls = 1
             /\ ~last.raw.raises => IsClassifierVerdict)
    /\ [][detector.constructed => detector' = detector]_vars

\* a classifier result right after a call that fell back
C7_Witness == history.fallback_before /\ IsClassifierVerdict

\* C8: the constructor raises nothing and leaves the detector in rule-based
\* mode with the catalog set up if ML mode was not asked for, the library
\* is missing or the ML set-up raised, and in ML mode otherwise; a detector
\* in rule-based mode answers valid text with a rule-based result and
\* never turns to ML mode.
C8_ConstructionOutcome ==
    /\ [](construction.done =>
            /\ last.op = "init" => last.outcome.kind = "return"
            /\ detector.constructed
            /\ IF \/ ~construction.use_ml_model
                  \/ ~TRANSFORMERS_AVAILABLE
                  \/ construction.env.fails_at # "never"
               THEN /\ PatternMode
                    /\ (IsCheck /\ ValidText(last.content)) => IsPatternVerdict
               ELSE detector.use_ml_model)
    /\ [][(detector.constructed /\ ~detector.use_ml_model)
          => ~detector'.use_ml_model]_vars

\* ML mode asked for and available, the set-up raised, and a call on valid
\* text was answered by the rule-based scorer
C8_Witness ==
    /\ construction.done
    /\ construction.use_ml_model
    /\ TRANSFORMERS_AVAILABLE
    /\ construction.env.fails_at = "config"
    /\ IsPatternVerdict
    /\ ValidText(last.content)

C10_NoMatchIsClean ==
    (IsPatternVerdict /\ Len(MatchesOf(last.content.value)) = 0)
    => /\ Verdict.toxicity_score = 0
       /\ Verdict.categories = << >>
       /\ Verdict.is_toxic = FALSE

\* "hello world" scored by the pattern path
C10_Witness ==
    /\ IsPatternVerdict
    /\ last.content.value = "hello world"
    /\ Verdict.toxicity_score = 0

\* C11: on the pattern path the text "you are an idiot and a moron" gets
\* categories that include harassment, and is_toxic = true.
C11_DoubledHarassmentIsToxic ==
    (IsPatternVerdict /\ last.content.value = "you are an idiot and a moron")
    => /\ \E k \in 1..Len(Verdict.categories) : Verdict.categories[k] = "harassment"
       /\ Verdict.is_toxic

\* C12: on the classifier path, for every threshold in [0,1], a probability
\* <= 0.1 or >= 0.9 comes with a confidence >= 0.85.
C12_ExtremeScoreFloor ==
    (IsClassifierVerdict /\ Verdict.threshold_used >= 0 /\ Verdict.threshold_used <= Scale
        /\ (ClampedProbability <= 100000 \/ ClampedProbability >= 900000))
    => Verdict.confidence >= 850000

\* probability 0.953 against threshold 1.0: both estimates are 0.095 and
\* the floor alone gives 0.85
C12_Witness ==
    /\ IsClassifierVerdict
    /\ Verdict.threshold_used = Scale
    /\ last.raw.logit = 3
    /\ Verdict.confidence = 850000

\* the categories of rule_categories to which at least one match of text is
\* attributed, and the weight each accumulates: its severity weight once
\* per match occurrence
OccurrencesIn(text, c) ==
    Cardinality({ k \in 1..Len(MatchesOf(text)) :
                     MatchesOf(text)[k].pattern_index \in rule_categories[c] })
MatchedCategories(text) == { c \in DOMAIN rule_categories : OccurrencesIn(text, c) > 0 }
AccumulatedWeight(text, c) == severity_weights[c] * OccurrencesIn(text, c)
MeanAccumulatedWeight(text) ==
    ( AccumulatedWeight(text, "profanity") + AccumulatedWeight(text, "hate_speech")
      + AccumulatedWeight(text, "harassment") + AccumulatedWeight(text, "toxic_behavior") )
    \div Cardinality(MatchedCategories(text))

\* C13: on the pattern path, when something matches, the score is
\* min(1.0, mean over the matched categories of weight x occurrences), and
\* the categories of the result are exactly the matched ones.
C13_MeanOfAccumulatedWeights ==
    (IsPatternVerdict /\ MatchedCategories(last.content.value) # {})
    => /\ Verdict.toxicity_score
            = Round3(Min(Scale, MeanAccumulatedWeight(last.content.value)))
       /\ { Verdict.categories[k] : k \in 1..Len(Verdict.categories) }
            = MatchedCategories(last.content.value)
       /\ Len(Verdict.categories) = Cardinality(MatchedCategories(last.content.value))

\* three categories matched, one of them twice: (0.3 + 2 x 0.9 + 0.7) / 3
C13_Witness ==
    /\ IsPatternVerdict
    /\ last.content.value = LongText
    /\ OccurrencesIn(LongText, "hate_speech") = 2
    /\ Verdict.toxicity_score = 933000
    /\ Len(Verdict.categories) = 3

\* C14: on the pattern path confidence = min(0.9, 0.3 + 0.2 x number of
\* match occurrences): 0.3 with no match and never above 0.9.
C14_PatternConfidence ==
    IsPatternVerdict
    => /\ Verdict.confidence
            = Round3(Min(900000, 300000 + 200000 * Len(MatchesOf(last.content.value))))
       /\ Verdict.confidence <= 900000
       /\ Len(MatchesOf(last.content.value)) = 0 => Verdict.confidence = 300000

\* four matches: 0.3 + 0.8 is capped at 0.9
C14_Witness ==
    /\ IsPatternVerdict
    /\ Len(MatchesOf(last.content.value)) = 4
    /\ Verdict.confidence = 900000

\* clamp(x, 0, 1)
Clamp01(x) == Max(0, Min(Scale, x))

\* the confidence as the reference derivation computes it, each estimate
\* clamped on its own
ReferenceConfidence(s, t) ==
    LET c == Max(Clamp01(2 * Abs(s - t)), Clamp01(Scale - 2 * Abs(500000 - s)))
    IN  Min(Scale, IF s <= 100000 \/ s >= 900000 THEN Max(c, 850000) ELSE c)

\* C15: for every score and threshold in [0,1] the confidence the code
\* computes (lines 202-212) is the one of the reference derivation.
C15_ConfidenceDerivation ==
    probe.stage = "output"
    => probe.confidence
         = ReferenceConfidence(probe.toxicity_score, probe.toxicity_threshold)

\* score 0.5 at threshold 0.5: the distance estimate is 0.0, the second
\* estimate 1.0
C15_Witness ==
    /\ probe.stage = "output"
    /\ probe.toxicity_score = 500000
    /\ probe.toxicity_threshold = 500000
    /\ probe.confidence = Scale

\* the keywords and phrases of each keyword category, and for each text
\* whether one of them occurs in its lower-cased normalised form
KeywordsOf ==
    [profanity |-> profanity_keywords, hate_speech |-> hate_keywords,
     harassment |-> harassment_keywords, threat |-> threat_keywords]

MlCleanLower == [t \in Texts |-> Lower(clean_content_for_ml(t))]

KeywordHit ==
    [t \in Texts, c \in DOMAIN KeywordsOf |->
        \E k \in 1..Len(KeywordsOf[c]) : Contains(MlCleanLower[t], KeywordsOf[c][k])]

Has(seq, x) == \E k \in 1..Len(seq) : seq[k] = x

\* C16: on the classifier path the categories are empty when the
\* probability is <= 0.3; above 0.3 a keyword category is present exactly
\* when one of its keywords occurs in the text; general_toxicity is present
\* exactly when the probability is > 0.6 and no keyword category matched,
\* and then it is the only category.
C16_CategoryAttribution ==
    IsClassifierVerdict
    => /\ ClampedProbability <= 300000 => Verdict.categories = << >>
       /\ ClampedProbability > 300000 =>
             \A c \in DOMAIN KeywordsOf :
                 Has(Verdict.categories, c) <=> KeywordHit[last.content.value, c]
       /\ Has(Verdict.categories, "general_toxicity")
             <=> /\ ClampedProbability > 600000
                 /\ \A c \in DOMAIN KeywordsOf : ~KeywordHit[last.content.value, c]
       /\ Has(Verdict.categories, "general_toxicity") => Len(Verdict.categories) = 1
       /\ \A k \in 1..Len(Verdict.categories) :
             Verdict.categories[k] \in DOMAIN KeywordsOf \cup {"general_toxicity"}

\* a text with keywords of three categories, reported toxic at probability
\* 0.269 by a detector with threshold 0.0, and no category
C16_Witness ==
    /\ IsClassifierVerdict
    /\ last.content.value = "damn I hate you idiot"
    /\ ClampedProbability = 268941
    /\ Verdict.is_toxic
    /\ Verdict.categories = << >>

\* what the call would return when run alone on the detector as constructed
AloneOutcome(call) == check_toxicity(AsConstructed, call.content, call.raw).outcome

\* C17: however the steps of concurrent check_toxicity calls interleave,
\* each call ends with the outcome it has when run alone (the same
\* toxicity_score, is_toxic, categories and detector_version), and no step
\* of a call changes the detector.
C17_ConcurrentCallsIndependent ==
    /\ [](\A t \in Threads :
            calls[t].pc = "done" => calls[t].outcome = AloneOutcome(calls[t]))
    /\ [][detector' = detector]_vars

\* a call returns a classifier result while another thread's call is in
\* its except clause
C17_Witness ==
    \E t \in Threads, u \in Threads :
        /\ calls[t].pc = "done"
        /\ calls[t].outcome.kind = "return"
        /\ calls[t].outcome.value.detector_version = "2.0.5-ml-fast"
        /\ calls[u].pc = "except"

\* C18: in every result, of the classifier path and of the pattern path,
\* content_length is the number of characters of the text as passed to
\* check_toxicity, not of its normalised or truncated form.
C18_ContentLengthOfOriginal ==
    ReturnedVerdict => Verdict.content_length = Len(last.content.value)

\* a classifier result for a text of more than 512 characters, of which
\* the model was given 512
C18_Witness ==
    /\ IsClassifierVerdict
    /\ Len(last.content.value) > 512
    /\ Len(clean_content_for_ml(last.content.value)) = 512
    /\ Verdict.content_length = Len(last.content.value)

\* C19: in both modes get_detector_info returns a record with the
\* detector's kind, the model's identifier and the list of categories, the
\* kind being the detector's mode.
C19_InfoHasKindModelCategories ==
    info # NoValue
    => /\ {"detector_type", "model_name", "categories"} \subseteq DOMAIN info
       /\ info.detector_type = IF detector.use_ml_model THEN "ml_model" ELSE "rule_based"

\* C20: a check_toxicity call runs the model at most once; if the model
\* raised, the call ran the rule-based scorer exactly once and the model
\* no second time.
C20_NoRetry ==
    IsCheck
    => /\ last.raw_calls <= 1
       /\ (last.raw_calls > 0 /\ last.raw.raises)
             => (last.raw_calls = 1 /\ last.rule_calls = 1)
       /\ last.rule_calls <= 1

\* a call in which the model raised
C20_Witness ==
    /\ IsCheck
    /\ detector.use_ml_model
    /\ last.raw.raises
    /\ last.raw_calls = 1
    /\ last.rule_calls = 1

\* C24: in every classifier result the reported fields agree: is_toxic
\* holds exactly when the toxicity_score of the result (rounded to three
\* places) is >= the threshold_used of the result.
C24_ReportedFieldsAgree ==
    IsClassifierVerdict
    => (Verdict.is_toxic <=> Verdict.toxicity_score >= Verdict.threshold_used)

\* the list indices of the catalog
PatternIndices == 0..(Len(toxic_patterns) - 1)

\* C25: in rule-based mode every category owns a pattern of the catalog and
\* every pattern belongs to exactly one category; a text whose only match
\* is the toxic-behaviour pattern (spam|troll|harassment, list index 5)
\* gets categories [toxic_behavior], score 0.5 and is_toxic false.
C25_CatalogAndCategoriesAgree ==
    /\ (detector.constructed /\ ~detector.use_ml_model)
          => /\ \A c \in DOMAIN detector.toxicity_categories :
                   detector.toxicity_categories[c] \cap PatternIndices # {}
             /\ \A i \in PatternIndices :
                   Cardinality({ c \in DOMAIN detector.toxicity_categories :
                                    i \in detector.toxicity_categories[c] }) = 1
    /\ (IsPatternVerdict /\ Len(MatchesOf(last.content.value)) > 0
          /\ \A k \in 1..Len(MatchesOf(last.content.value)) :
                 MatchesOf(last.content.value)[k].pattern_index = 5)
          => /\ Verdict.categories = <<"toxic_behavior">>
             /\ Verdict.toxicity_score = 500000
             /\ Verdict.is_toxic = FALSE

\* getattr(self, 'max_length', 512): the configured maximum input length
ConfiguredMaxLength ==
    IF "max_length" \in detector.attrs THEN detector.max_length ELSE 512

\* for each text, the length of its normalised form before the trim and
\* the length of the text _clean_content_for_ml hands to the tokenizer
UntrimmedLength ==
    [t \in Texts |->
        Len(KeepForMlRange(Strip(CollapseWhitespace(t)), 1,
                           Len(Strip(CollapseWhitespace(t)))))]

MlInputLength == [t \in Texts |-> Len(clean_content_for_ml(t))]

\* C26: the normalised text handed to the classifier has at most the
\* configured max_length characters, and a normalised text that is not
\* longer than max_length is handed over whole.
C26_TrimToConfiguredLength ==
    IsClassifierVerdict
    => /\ MlInputLength[last.content.value] <= ConfiguredMaxLength
       /\ UntrimmedLength[last.content.value] <= ConfiguredMaxLength
             => MlInputLength[last.content.value] = UntrimmedLength[last.content.value]

\* C27: the second confidence estimate rewards scores far from 0.5: a
\* score at least as far from 0.5 as another gets an estimate at least as
\* high, whatever the threshold.
C27_SecondEstimateRewardsExtremes ==
    probe.stage = "output"
    => \A other \in UnitGrid :
          Abs(probe.toxicity_score - 500000) >= Abs(other - 500000)
          => extremes_confidence(probe.toxicity_score) >= extremes_confidence(other)

\* the substitutes of a letter that _clean_content maps back to it
Substitutes(c) ==
    CASE c = "a" -> {"4", "@"}
      [] c = "e" -> {"3"}
      [] c = "i" -> {"1", "!"}
      [] c = "o" -> {"0"}
      [] c = "s" -> {"5", "$"}
      [] OTHER   -> {}

\* variant is text with some letters replaced by their upper-case form or
\* by one of their substitutes; cased is the set of letters that count
Obfuscates(variant, text, cased) ==
    /\ Len(variant) = Len(text)
    /\ \A i \in 1..Len(text) :
          \/ CharAt(variant, i) = CharAt(text, i)
          \/ CharAt(text, i) \in cased /\ CharAt(variant, i) = UpperChar(CharAt(text, i))
          \/ CharAt(variant, i) \in Substitutes(CharAt(text, i))

\* for each text, the texts it is an obfuscation of
Originals ==
    [variant \in Texts |->
        {text \in Texts : Obfuscates(variant, text, LowerLetters \cup OtherLetters)}]

\* the same with upper-casing confined to the letters a-z
AsciiOriginals ==
    [variant \in Texts |-> {text \in Texts : Obfuscates(variant, text, LowerLetters)}]

\* what the pattern path returns for a text
PatternVerdictOf(text) ==
    rule_score([toxicity_categories |-> rule_categories,
                severity_weights |-> severity_weights], text, MatchesOf(text))

SameJudgement(verdict, other) ==
    /\ verdict.toxicity_score = other.toxicity_score
    /\ verdict.is_toxic = other.is_toxic
    /\ verdict.categories = other.categories
    /\ verdict.confidence = other.confidence

\* C28 as stated: a pattern-path verdict for a text has the toxicity_score,
\* is_toxic, categories and confidence of the pattern-path verdict for every
\* text it is a case or leetspeak obfuscation of, for any letter.
C28_ObfuscationInvariance ==
    (IsPatternVerdict /\ last.content.type = "str")
    => \A text \in Originals[last.content.value] :
          SameJudgement(Verdict, PatternVerdictOf(text))

\* C28: a pattern-path verdict for a text has the toxicity_score, is_toxic,
\* categories and confidence of the pattern-path verdict for every text it
\* is obtained from by replacing letters a-z by their upper-case form or
\* a/e/i/o/s by one of their substitutes.
C28_AsciiObfuscationInvariance ==
    (IsPatternVerdict /\ last.content.type = "str")
    => \A text \in AsciiOriginals[last.content.value] :
          SameJudgement(Verdict, PatternVerdictOf(text))

\* a toxic pattern verdict for a text that is an obfuscation of another text
C28_Witness ==
    /\ IsPatternVerdict
    /\ last.content = Str("D4MN TR0LL")
    /\ "damn troll" \in AsciiOriginals[last.content.value]
    /\ Verdict.toxicity_score > 0

\* C29: in every check_toxicity call, a detector in rule-based mode runs the
\* model zero times and returns no ML-tagged result; an ML-tagged result
\* carries threshold_used and comes from a call made in ML mode in which the
\* model ran once and returned; a rule-based-tagged result carries no
\* threshold_used.
C29_TagsTruthful ==
    [][ last'.op = "check_toxicity"
        => /\ ~detector.use_ml_model
                 => last'.raw_calls = 0 /\ ~IsClassifierVerdict'
           /\ IsClassifierVerdict'
                 => /\ detector.use_ml_model
                    /\ last'.raw_calls = 1
                    /\ ~last'.raw.raises
                    /\ "threshold_used" \in DOMAIN Verdict'
           /\ IsPatternVerdict' => "threshold_used" \notin DOMAIN Verdict' ]_vars

\* an ML-tagged result of a call in which the model ran once
C29_Witness ==
    /\ IsClassifierVerdict
    /\ detector.use_ml_model
    /\ last.raw_calls = 1
    /\ "threshold_used" \in DOMAIN Verdict

(***************************************************************************)
(* The routes of yeet_check.py and the validators they use                 *)
(*                                                                         *)
(* A JSON value is [type, value] as for check_toxicity; a response is      *)
(* [status, body].  A handler's run is [status, body, analysed, self]:     *)
(* the response, the arguments it called check_toxicity with, in order,    *)
(* and the detector afterwards.                                            *)
(***************************************************************************)
\* the characters [\x00-\x08\x0B\x0C\x0E-\x1F\x7F], among those the inputs use
ControlCharacters == {"\f"}

\* re.sub(r'[\x00-\x08\x0B\x0C\x0E-\x1F\x7F]', '', text) on the characters
\* lo..hi, by halves
RECURSIVE RemoveControlRange(_, _, _)
RemoveControlRange(s, lo, hi) ==
    IF lo > hi THEN ""
    ELSE IF lo = hi
         THEN IF CharAt(s, lo) \in ControlCharacters THEN "" ELSE CharAt(s, lo)
    ELSE RemoveControlRange(s, lo, (lo + hi) \div 2)
         \o RemoveControlRange(s, (lo + hi) \div 2 + 1, hi)

\* lines 57-62 of sanitize_input, for each text
SanitizedText ==
    [t \in Texts |->
        Strip(Slice(RemoveControlRange(t, 1, Len(t)), 0,
                    Min(Len(RemoveControlRange(t, 1, Len(t))), MaxContentLength)))]

\* sanitize_input
sanitize_input(text) ==
    IF text.type # "str" THEN "" ELSE SanitizedText[text.value]

\* validate_content
validate_content(content) ==
    IF content.type = "NoneType"
    THEN [valid |-> FALSE, error |-> "Content cannot be None"]
    ELSE IF content.type # "str"
    THEN [valid |-> FALSE, error |-> "Content must be a string"]
    ELSE IF Len(Strip(content.value)) = 0
    THEN [valid |-> FALSE, error |-> "Content cannot be empty"]
    ELSE IF Len(content.value) > MaxContentLength
    THEN [valid |-> FALSE, error |-> "Content exceeds maximum length of 10,000 characters"]
    ELSE [valid |-> TRUE, error |-> "None"]

\* [a-zA-Z0-9\-_]
IdCharacters == LowerLetters \cup UpperLetters \cup Digits \cup {"-", "_"}

\* the {1,50} of the id pattern
MaxIdLength == 50

\* s without the newline it ends with, if it ends with one
BeforeFinalNewline(s) ==
    IF Len(s) > 0 /\ CharAt(s, Len(s)) = "\n" THEN SubSeq(s, 1, Len(s) - 1) ELSE s

\* re.match(r'^[a-zA-Z0-9\-_]{1,50}$', s): $ matches at the end of the
\* string and before a newline that ends the string
MatchesIdPattern(s) ==
    /\ Len(BeforeFinalNewline(s)) \in 1..MaxIdLength
    /\ \A i \in 1..Len(BeforeFinalNewline(s)) :
          CharAt(BeforeFinalNewline(s), i) \in IdCharacters

\* validate_yeet_id
validate_yeet_id(yeet_id) ==
    IF yeet_id.type = "NoneType" THEN TRUE
    ELSE IF yeet_id.type # "str" THEN FALSE
    ELSE MatchesIdPattern(yeet_id.value)

\* validate_user_id
validate_user_id(user_id) ==
    IF user_id.type = "NoneType" THEN TRUE
    ELSE IF user_id.type # "str" THEN FALSE
    ELSE MatchesIdPattern(user_id.value)

\* a response of a handler that did not call the detector
Reject(self, status, error) ==
    [status |-> status, body |-> [error |-> error], analysed |-> <<>>, self |-> self]

\* result['yeet_id'] = ...; result['user_id'] = ... on a result dictionary
WithIds(result, yeet_id, user_id) ==
    [k \in DOMAIN result \cup {"yeet_id", "user_id"} |->
        IF k = "yeet_id" THEN yeet_id
        ELSE IF k = "user_id" THEN user_id
        ELSE result[k]]

\* the except clause of check_yeet_toxicity (lines 86-91)
CheckFailed(self, analysed) ==
    [status |-> 500,
     body |-> [error |-> "Internal server error",
               message |-> "Failed to check content toxicity"],
     analysed |-> analysed, self |-> self]

\* lines 48-84 of check_yeet_toxicity, data being a JSON object with a
\* content entry
check_yeet_content(self, data, raw) ==
    LET content == Str(sanitize_input(data.content))
        called  == check_toxicity(self, content, raw)
    IN  IF ~validate_content(content).valid
        THEN Reject(self, 400, validate_content(content).error)
        ELSE IF ~validate_yeet_id(data.yeet_id)
        THEN Reject(self, 400, "Invalid yeet_id format")
        ELSE IF ~validate_user_id(data.user_id)
        THEN Reject(self, 400, "Invalid user_id format")
        ELSE IF called.outcome.kind = "raise"
        THEN CheckFailed(self_after_check(self, called), <<content>>)
        ELSE [status |-> 200,
              body |-> WithIds(called.outcome.value, data.yeet_id, data.user_id),
              analysed |-> <<content>>,
              self |-> self_after_check(self, called)]

\* check_yeet_toxicity (lines 33-91); request is [is_json, data], data the
\* parsed body: [kind |-> "null"] or a JSON object [kind |-> "object",
\* has_content, content, yeet_id, user_id], an absent id being None as
\* data.get gives it.  'content' not in None raises TypeError, which the
\* except clause answers.
check_yeet_toxicity(self, request, raw) ==
    IF ~request.is_json
    THEN Reject(self, 400, "Content-Type must be application/json")
    ELSE IF request.data.kind = "null"
    THEN CheckFailed(self, <<>>)
    ELSE IF ~request.data.has_content
    THEN Reject(self, 400, "Missing required field: content")
    ELSE check_yeet_content(self, request.data, raw)

\* the limit on the number of yeets of a batch (line 137)
MaxBatchSize == 100

\* the except clause of check_batch_toxicity (lines 174-179)
BatchFailed(self, analysed) ==
    [status |-> 500,
     body |-> [error |-> "Internal server error",
               message |-> "Failed to process batch toxicity check"],
     analysed |-> analysed, self |-> self]

\* one round of the loop (lines 147-167) on the item yeet at index i: the
\* entry appended to results, or crashed when an exception leaves the loop.
\* A JSON null item makes 'content' not in yeet raise TypeError, outside
\* the inner try.
batch_item(self, yeet, raw, i) ==
    LET called == check_toxicity(self, yeet.content, raw)
    IN  IF yeet.kind = "null"
        THEN [crashed |-> TRUE, results |-> <<>>, analysed |-> <<>>, self |-> self]
        ELSE IF ~yeet.has_content
        THEN [crashed |-> FALSE,
              results |-> << [error |-> "Missing content for yeet at index",
                              index |-> i,
                              yeet_id |-> yeet.yeet_id, user_id |-> yeet.user_id] >>,
              analysed |-> <<>>, self |-> self]
        ELSE IF called.outcome.kind = "raise"
        THEN [crashed |-> FALSE,
              results |-> << [error |-> "Failed to check toxicity",
                              exception |-> called.outcome.exception,
                              yeet_id |-> yeet.yeet_id, user_id |-> yeet.user_id] >>,
              analysed |-> <<yeet.content>>,
              self |-> self_after_check(self, called)]
        ELSE [crashed |-> FALSE,
              results |-> <<WithIds(called.outcome.value, yeet.yeet_id, yeet.user_id)>>,
              analysed |-> <<yeet.content>>,
              self |-> self_after_check(self, called)]

\* two stretches of the loop, one after the other
batch_join(left, right) ==
    [crashed |-> right.crashed,
     results |-> left.results \o right.results,
     analysed |-> left.analysed \o right.analysed,
     self |-> right.self]

\* the loop over the items lo..hi, by halves; the rounds after a crash do
\* not run
RECURSIVE batch_loop(_, _, _, _, _)
batch_loop(self, yeets, raws, lo, hi) ==
    IF lo > hi
    THEN [crashed |-> FALSE, results |-> <<>>, analysed |-> <<>>, self |-> self]
    ELSE IF lo = hi THEN batch_item(self, yeets[lo], raws[lo], lo - 1)
    ELSE LET left == batch_loop(self, yeets, raws, lo, (lo + hi) \div 2)
         IN  IF left.crashed THEN left
             ELSE batch_join(left,
                             batch_loop(left.self, yeets, raws, (lo + hi) \div 2 + 1, hi))

\* lines 142-172 of check_batch_toxicity, yeets being a list of 1 to
\* MaxBatchSize items
check_batch_items(self, yeets, raws) ==
    LET looped == batch_loop(self, yeets, raws, 1, Len(yeets))
    IN  IF looped.crashed
        THEN BatchFailed(looped.self, looped.analysed)
        ELSE [status |-> 200,
              body |-> [results |-> looped.results,
                        total_processed |-> Len(looped.results)],
              analysed |-> looped.analysed,
              self |-> looped.self]

\* check_batch_toxicity (lines 114-179); request is [is_json, data], data
\* the parsed body: [kind |-> "null"] or a JSON object [kind |-> "object",
\* yeets], yeets being [type, value]: type "list" with the items as value,
\* another type for a value that is not a list, "absent" for no entry
check_batch_toxicity(self, request, raws) ==
    IF ~request.is_json
    THEN Reject(self, 400, "Content-Type must be application/json")
    ELSE IF request.data.kind = "null"
    THEN BatchFailed(self, <<>>)
    ELSE IF request.data.yeets.type # "list"
    THEN Reject(self, 400, "Missing or invalid field: yeets (must be an array)")
    ELSE IF Len(request.data.yeets.value) = 0
    THEN Reject(self, 400, "Yeets array cannot be empty")
    ELSE IF Len(request.data.yeets.value) > MaxBatchSize
    THEN Reject(self, 400, "Batch size cannot exceed 100 yeets")
    ELSE check_batch_items(self, request.data.yeets.value, raws)

(***************************************************************************)
(* Requests to the two routes of the service                               *)
(***************************************************************************)
\* the contents, ids and bodies of the requests
RequestTexts == {"hello world", "damn troll", FormFeedText, MaxText, OverlongText, "   ", ""}

RequestContents ==
    {Str(t) : t \in RequestTexts} \cup {NoContent, [type |-> "int", value |-> "42"]}

YeetIds ==
    { NoContent, Str("yeet_1"), Str("yeet_1\n"), Str(""), Str("not valid!"),
      Str(Fill("a", MaxIdLength)), Str(Fill("a", MaxIdLength + 1)),
      [type |-> "int", value |-> "42"] }

UserIds == {NoContent, Str("user-1"), Str("user 1")}

NotJson == [is_json |-> FALSE, data |-> [kind |-> "none"]]
JsonNull == [is_json |-> TRUE, data |-> [kind |-> "null"]]

\* a request whose body is a JSON object with a content entry
Check(content, yeet_id, user_id) ==
    [is_json |-> TRUE,
     data |-> [kind |-> "object", has_content |-> TRUE, content |-> content,
               yeet_id |-> yeet_id, user_id |-> user_id]]

\* every content without ids, every pair of ids with one content, and
\* bodies without a content entry
CheckRequests ==
    {NotJson, JsonNull} \cup
    {Check(c, NoContent, NoContent) : c \in RequestContents} \cup
    {Check(Str("hello world"), y, u) : y \in YeetIds, u \in UserIds} \cup
    { [is_json |-> TRUE,
       data |-> [kind |-> "object", has_content |-> FALSE, content |-> NoContent,
                 yeet_id |-> y, user_id |-> NoContent]] : y \in {NoContent, Str("yeet_1")} }

\* the items of a batch: JSON objects with and without content, and null
Item(content, yeet_id) ==
    [kind |-> "object", has_content |-> TRUE, content |-> content,
     yeet_id |-> Str(yeet_id), user_id |-> Str("user-1")]

PlainItem == Item(Str("hello world"), "batch_1")

NoContentItem ==
    [kind |-> "object", has_content |-> FALSE, content |-> NoContent,
     yeet_id |-> Str("batch_2"), user_id |-> NoContent]

NullItem ==
    [kind |-> "null", has_content |-> FALSE, content |-> NoContent,
     yeet_id |-> NoContent, user_id |-> NoContent]

BatchItems ==
    { PlainItem, NoContentItem, NullItem,
      Item(NoContent, "batch_3"),
      Item(Str(FormFeedText), "batch_4"),
      Item(Str(OverlongText), "batch_5") }

\* batches of up to MaxItems items are enumerated item by item
MaxItems == 2

ItemLists ==
    (UNION {[1..n -> BatchItems] : n \in 0..MaxItems})
    \cup {[i \in 1..n |-> PlainItem] : n \in {MaxBatchSize, MaxBatchSize + 1}}

Batch(yeets) == [is_json |-> TRUE, data |-> [kind |-> "object", yeets |-> yeets]]

BatchRequests ==
    {NotJson, JsonNull, Batch([type |-> "absent", value |-> <<>>]),
     Batch([type |-> "str", value |-> <<>>])}
    \cup {Batch([type |-> "list", value |-> l]) : l \in ItemLists}

\* the model raises or returns the logit 0; the routes pass the result on
\* without reading its score
RouteRaws(self) ==
    IF self.use_ml_model THEN {r \in RawBehaviours : r.raises \/ r.logit = 0} ELSE {NoRaw}

\* the model's behaviour in each round of the loop: any for the batches
\* enumerated item by item, the same in every round for the others
BatchRaws(self, request) ==
    IF request.is_json /\ request.data.kind = "object" /\ request.data.yeets.type = "list"
    THEN IF Len(request.data.yeets.value) <= MaxItems
         THEN [1..Len(request.data.yeets.value) -> RouteRaws(self)]
         ELSE {[i \in 1..Len(request.data.yeets.value) |-> r] : r \in RouteRaws(self)}
    ELSE {<<>>}

\* the requests of one run
MaxRequests == 2

\* what a handled request leaves behind
Handled(route, request, run) ==
    /\ service.served < MaxRequests
    /\ service' = [route |-> route, request |-> request, status |-> run.status,
                   body |-> run.body, analysed |-> run.analysed,
                   served |-> service.served + 1]
    /\ detector' = run.self

\* POST /api/moderation/check
CheckYeet(request, raw) ==
    /\ detector.constructed
    /\ raw \in RouteRaws(detector)
    /\ Handled("check", request, check_yeet_toxicity(detector, request, raw))
    /\ UNCHANGED <<TRANSFORMERS_AVAILABLE, construction, last, info, history, calls, probe>>

\* POST /api/moderation/batch
CheckBatch(request) ==
    /\ detector.constructed
    /\ \E raws \in BatchRaws(detector, request) :
          Handled("batch", request, check_batch_toxicity(detector, request, raws))
    /\ UNCHANGED <<TRANSFORMERS_AVAILABLE, construction, last, info, history, calls, probe>>

NextService ==
    \/ \E use_ml_model \in BOOLEAN, env \in MlEnvironments : Construct(use_ml_model, env)
    \/ \E request \in CheckRequests, raw \in RawBehaviours : CheckYeet(request, raw)
    \/ \E request \in BatchRequests : CheckBatch(request)

SpecService == Init /\ [][NextService]_vars

\* the request the latest response answers
IsCheckRequest == service.route = "check"
IsBatchRequest == service.route = "batch"

\* for each text, whether it holds a character the sanitizer removes
HasControlCharacter ==
    [t \in Texts |-> \E i \in 1..Len(t) : CharAt(t, i) \in ControlCharacters]

\* C21: every text a route hands to check_toxicity, from the single-check
\* route or as an item of the batch route, holds no control character and
\* has at most 10,000 characters.
C21_AnalysedTextsAreSanitized ==
    \A k \in 1..Len(service.analysed) :
        service.analysed[k].type = "str"
        => /\ ~HasControlCharacter[service.analysed[k].value]
           /\ Len(service.analysed[k].value) <= MaxContentLength

\* the body of the latest request is a JSON object
HasObject == service.request.is_json /\ service.request.data.kind = "object"

\* C22: a single-check request whose content has more than 10,000
\* characters is answered with status 400, the detector not being called.
C22_OverlongContentRejected ==
    (/\ IsCheckRequest /\ HasObject
     /\ service.request.data.has_content
     /\ service.request.data.content.type = "str"
     /\ Len(service.request.data.content.value) > MaxContentLength)
    => service.status = 400 /\ service.analysed = <<>>

\* an id that is given and is not 1-50 characters of [A-Za-z0-9_-]
IllFormedId(id) ==
    /\ id.type # "NoneType"
    /\ ~ /\ id.type = "str"
         /\ Len(id.value) \in 1..MaxIdLength
         /\ \A i \in 1..Len(id.value) : CharAt(id.value, i) \in IdCharacters

\* the cases of a single-check request that are to be answered with 400
IllFormedCheck ==
    \/ ~service.request.is_json
    \/ /\ HasObject
       /\ \/ ~service.request.data.has_content
          \/ service.request.data.content.type # "str"
          \/ service.request.data.content.value = ""
          \/ IllFormedId(service.request.data.yeet_id)
          \/ IllFormedId(service.request.data.user_id)

\* C23: a single-check request with a non-JSON body, without content, with
\* empty, null or non-string content or with an ill-formed yeet_id or
\* user_id is answered with status 400 without a call of check_toxicity;
\* a request leads to at most one call, and to none in these cases.
C23_IllFormedRequestsRejected ==
    IsCheckRequest
    => /\ IllFormedCheck => service.status = 400 /\ service.analysed = <<>>
       /\ Len(service.analysed) <= 1
       /\ Len(service.analysed) = 1 => ~IllFormedCheck

\* the latest request is a batch that passed the checks of lines 118-140
AcceptedBatch ==
    /\ IsBatchRequest /\ HasObject
    /\ service.request.data.yeets.type = "list"
    /\ Len(service.request.data.yeets.value) \in 1..MaxBatchSize

Yeets == service.request.data.yeets.value

LacksContent(yeet) == yeet.kind # "object" \/ ~yeet.has_content

\* the contents of the items lo..hi that have one, in order
RECURSIVE ContentsOf(_, _, _)
ContentsOf(yeets, lo, hi) ==
    IF lo > hi THEN <<>>
    ELSE IF lo = hi
         THEN IF LacksContent(yeets[lo]) THEN <<>> ELSE <<yeets[lo].content>>
    ELSE ContentsOf(yeets, lo, (lo + hi) \div 2)
         \o ContentsOf(yeets, (lo + hi) \div 2 + 1, hi)

\* C30: an accepted batch of 1 to 100 items is answered with status 200 and
\* one result per item in input order, total_processed being the number of
\* items; an item without content, or one whose content check_toxicity
\* rejects, has an error entry, every other entry is a result for its own
\* item, and every item with content is analysed.
C30_BatchIsolatesFailures ==
    AcceptedBatch
    => /\ service.status = 200
       /\ Len(service.body.results) = Len(Yeets)
       /\ service.body.total_processed = Len(Yeets)
       /\ service.analysed = ContentsOf(Yeets, 1, Len(Yeets))
       /\ \A i \in 1..Len(Yeets) :
             IF LacksContent(Yeets[i]) \/ rejects(Yeets[i].content)
             THEN "error" \in DOMAIN service.body.results[i]
             ELSE \/ "error" \in DOMAIN service.body.results[i]
                  \/ /\ service.body.results[i].content_length = Len(Yeets[i].content.value)
                     /\ service.body.results[i].yeet_id = Yeets[i].yeet_id

====
